---- MODULE Spec2Model ----
(***************************************************************************)
(* Model of the teaching scripts of modelos_de_credito:                    *)
(*   Financial_Hard.py  Calculator -> FinancialCalculator -> Bond          *)
(*   Easy_finance.py    BankAccount / SavingsAccount                       *)
(*                                                                         *)
(* Python floats are modelled as exact rationals (sign, numerator,         *)
(* denominator) over arbitrary-size naturals, so every formula of the      *)
(* source is computed as the source computes it, without rounding.         *)
(* A Python exception is a value whose err field names the exception.      *)
(***************************************************************************)
EXTENDS Integers, Sequences, FiniteSets, TLC

(***************************************************************************)
(* Arbitrary-size naturals: little-endian sequences of limbs in            *)
(* 0 .. LimbBase-1 with no leading zero limb; zero is the empty sequence.  *)
(***************************************************************************)
LimbBase == 100 * 100

RECURSIVE NatToBig(_)
NatToBig(n) ==
  IF n = 0 THEN <<>> ELSE <<n % LimbBase>> \o NatToBig(n \div LimbBase)

RECURSIVE BigAddC(_, _, _)
BigAddC(a, b, c) ==
  IF a = <<>> /\ b = <<>> THEN (IF c = 0 THEN <<>> ELSE <<c>>)
  ELSE LET x == IF a = <<>> THEN 0 ELSE Head(a)
           y == IF b = <<>> THEN 0 ELSE Head(b)
           s == x + y + c
           ta == IF a = <<>> THEN <<>> ELSE Tail(a)
           tb == IF b = <<>> THEN <<>> ELSE Tail(b)
       IN <<s % LimbBase>> \o BigAddC(ta, tb, s \div LimbBase)

BigAdd(a, b) == BigAddC(a, b, 0)

RECURSIVE BigTrim(_)
BigTrim(a) ==
  IF a = <<>> THEN <<>>
  ELSE IF a[Len(a)] = 0 THEN BigTrim(SubSeq(a, 1, Len(a) - 1)) ELSE a

RECURSIVE BigSubB(_, _, _)
BigSubB(a, b, br) ==
  IF a = <<>> THEN <<>>
  ELSE LET y == IF b = <<>> THEN 0 ELSE Head(b)
           tb == IF b = <<>> THEN <<>> ELSE Tail(b)
           s == Head(a) - y - br
       IN IF s < 0 THEN <<s + LimbBase>> \o BigSubB(Tail(a), tb, 1)
                   ELSE <<s>> \o BigSubB(Tail(a), tb, 0)

\* a - b for a >= b
BigSub(a, b) == BigTrim(BigSubB(a, b, 0))

RECURSIVE BigCmpAt(_, _, _)
BigCmpAt(a, b, i) ==
  IF i = 0 THEN 0
  ELSE IF a[i] < b[i] THEN -1
  ELSE IF a[i] > b[i] THEN 1
  ELSE BigCmpAt(a, b, i - 1)

\* -1, 0 or 1 as a < b, a = b, a > b
BigCmp(a, b) ==
  IF Len(a) < Len(b) THEN -1
  ELSE IF Len(a) > Len(b) THEN 1
  ELSE BigCmpAt(a, b, Len(a))

RECURSIVE BigMulSmallC(_, _, _)
BigMulSmallC(a, k, c) ==
  IF a = <<>> THEN (IF c = 0 THEN <<>> ELSE <<c>>)
  ELSE LET s == Head(a) * k + c
       IN <<s % LimbBase>> \o BigMulSmallC(Tail(a), k, s \div LimbBase)

BigMulSmall(a, k) == IF k = 0 THEN <<>> ELSE BigMulSmallC(a, k, 0)

BigShift(a) == IF a = <<>> THEN <<>> ELSE <<0>> \o a

RECURSIVE BigMul(_, _)
BigMul(a, b) ==
  IF a = <<>> \/ b = <<>> THEN <<>>
  ELSE BigAdd(BigMulSmall(a, Head(b)), BigShift(BigMul(a, Tail(b))))

BigOne == <<1>>

\* a mod k and a div k for a machine integer 0 < k < LimbBase
RECURSIVE BigModSmallAt(_, _, _, _)
BigModSmallAt(a, k, i, r) ==
  IF i = 0 THEN r ELSE BigModSmallAt(a, k, i - 1, (r * LimbBase + a[i]) % k)

BigModSmall(a, k) == BigModSmallAt(a, k, Len(a), 0)

RECURSIVE BigDivSmallAt(_, _, _, _)
BigDivSmallAt(a, k, i, r) ==
  IF i = 0 THEN <<>>
  ELSE LET cur == r * LimbBase + a[i]
       IN BigDivSmallAt(a, k, i - 1, cur % k) \o <<cur \div k>>

BigDivSmall(a, k) == BigTrim(BigDivSmallAt(a, k, Len(a), 0))

(***************************************************************************)
(* Rationals: [s |-> sign, n |-> |numerator|, d |-> denominator > 0].      *)
(* A rational that outgrows two limbs is reduced by the primes of          *)
(* SmallPrimes, which bounds its size; it is not in lowest terms, and      *)
(* RatEq compares by cross-multiplication.                                 *)
(***************************************************************************)
SmallPrimes == <<2, 3, 5, 7>>

\* <<n, d>> with the common factors p removed
RECURSIVE StripPrime(_, _, _)
StripPrime(n, d, p) ==
  IF BigModSmall(n, p) = 0 /\ BigModSmall(d, p) = 0
  THEN StripPrime(BigDivSmall(n, p), BigDivSmall(d, p), p)
  ELSE <<n, d>>

RECURSIVE StripPrimes(_, _)
StripPrimes(nd, i) ==
  IF i > Len(SmallPrimes) THEN nd
  ELSE StripPrimes(StripPrime(nd[1], nd[2], SmallPrimes[i]), i + 1)

RatOf(s, nd) == [s |-> s, n |-> nd[1], d |-> nd[2]]

\* numbers of at most two limbs are left as they are
RatNorm(s, n, d) ==
  IF Len(n) <= 2 /\ Len(d) <= 2 THEN [s |-> s, n |-> n, d |-> d]
  ELSE RatOf(s, StripPrimes(<<n, d>>, 1))

Sgn(i) == IF i < 0 THEN -1 ELSE IF i = 0 THEN 0 ELSE 1

Abs(i) == IF i < 0 THEN -i ELSE i

RatZero == [s |-> 0, n |-> <<>>, d |-> BigOne]

\* the rational p / q of two machine integers, q # 0
R(p, q) ==
  IF p = 0 THEN RatZero
  ELSE RatNorm(Sgn(p) * Sgn(q), NatToBig(Abs(p)), NatToBig(Abs(q)))

RatInt(i) == R(i, 1)

RatOne == RatInt(1)

RatIsZero(a) == a.s = 0

RatNeg(a) == [a EXCEPT !.s = -a.s]

RatMul(a, b) ==
  IF a.s = 0 \/ b.s = 0 THEN RatZero
  ELSE RatNorm(a.s * b.s, BigMul(a.n, b.n), BigMul(a.d, b.d))

\* a / b for b # 0
RatDiv(a, b) ==
  IF a.s = 0 THEN RatZero
  ELSE RatNorm(a.s * b.s, BigMul(a.n, b.d), BigMul(a.d, b.n))

\* sa * x / d + sb * y / d for x, y > 0 and signs sa, sb
RatAddCross(sa, x, sb, y, d) ==
  IF sa = sb THEN RatNorm(sa, BigAdd(x, y), d)
  ELSE IF BigCmp(x, y) = 0 THEN RatZero
  ELSE IF BigCmp(x, y) > 0 THEN RatNorm(sa, BigSub(x, y), d)
  ELSE RatNorm(sb, BigSub(y, x), d)

RatAdd(a, b) ==
  IF a.s = 0 THEN b
  ELSE IF b.s = 0 THEN a
  ELSE RatAddCross(a.s, BigMul(a.n, b.d), b.s, BigMul(b.n, a.d), BigMul(a.d, b.d))

RatSub(a, b) == RatAdd(a, RatNeg(b))

\* the sign of a - b
RatCmp(a, b) ==
  IF a.s # b.s THEN (IF a.s < b.s THEN -1 ELSE 1)
  ELSE IF a.s = 0 THEN 0
  ELSE a.s * BigCmp(BigMul(a.n, b.d), BigMul(b.n, a.d))

RatEq(a, b) == RatCmp(a, b) = 0

RatLe(a, b) == RatCmp(a, b) <= 0

RatLt(a, b) == RatCmp(a, b) < 0

\* base ** exponent for an integer exponent >= 0 (0 ** 0 = 1, as in Python)
RECURSIVE RatPow(_, _)
RatPow(base, exponent) ==
  IF exponent = 0 THEN RatOne ELSE RatMul(base, RatPow(base, exponent - 1))

\* x rounds to m / scale (m an integer, scale a power of ten), ties aside:
\* m - 1/2 <= x * scale < m + 1/2
RoundsTo(x, m, scale) ==
  /\ RatLe(R(2 * m - 1, 2 * scale), x)
  /\ RatLt(x, R(2 * m + 1, 2 * scale))

(***************************************************************************)
(* Outcome of a call: a returned value, or a raised exception.             *)
(***************************************************************************)
Ok(v) == [err |-> "none", v |-> v]

Raise(e) == [err |-> e, v |-> RatZero]

Raised(r) == r.err # "none"

\* a local name: Body applied to the value of v
Let(v, Body(_)) == Body(v)

\* Python's a / b on numbers: ZeroDivisionError when b == 0
float_div(a, b) ==
  IF RatIsZero(b) THEN Raise("ZeroDivisionError") ELSE Ok(RatDiv(a, b))

(***************************************************************************)
(* class Calculator                                                        *)
(***************************************************************************)
add(a, b) == RatAdd(a, b)

subtract(a, b) == RatSub(a, b)

multiply(a, b) == RatMul(a, b)

\* a zero divisor answered with a value instead of the exception
divide_returns_default(a, b) ==
  IF RatIsZero(b) THEN Ok(RatZero) ELSE Ok(RatDiv(a, b))

\* the guard written b <= 0
divide_guard_nonpositive(a, b) ==
  IF b.s <= 0 THEN Raise("ZeroDivisionError") ELSE Ok(RatDiv(a, b))

divide(a, b) ==
  IF RatIsZero(b) THEN Raise("ZeroDivisionError") ELSE Ok(RatDiv(a, b))

power(base, exponent) == RatPow(base, exponent)

(***************************************************************************)
(* class FinancialCalculator(Calculator)                                   *)
(***************************************************************************)
\* compounding instead of discounting
present_value_times(cash_flow, rate, period) ==
  Let(power(add(RatOne, rate), period),
      LAMBDA discount_factor : Ok(multiply(cash_flow, discount_factor)))

present_value(cash_flow, rate, period) ==
  Let(power(add(RatOne, rate), period),
      LAMBDA discount_factor : divide(cash_flow, discount_factor))

future_value(cash_flow, rate, period) ==
  Let(power(add(RatOne, rate), period),
      LAMBDA growth_factor : Ok(multiply(cash_flow, growth_factor)))

(***************************************************************************)
(* class Bond(FinancialCalculator)                                         *)
(***************************************************************************)
\* Bond.__init__: the instance's fields
Bond(face_value, coupon_rate, yield_to_maturity, maturity_years, payments_per_year) ==
  [face_value |-> face_value,
   coupon_rate |-> coupon_rate,
   yield_to_maturity |-> yield_to_maturity,
   maturity_years |-> maturity_years,
   payments_per_year |-> payments_per_year,
   total_periods |-> maturity_years * payments_per_year,
   periodic_coupon |->
     RatDiv(RatMul(face_value, coupon_rate), RatInt(payments_per_year)),
   periodic_yield |-> RatDiv(yield_to_maturity, RatInt(payments_per_year))]

\* the principal added to the first entry instead of the last
cash_flows_principal_first(self) ==
  Let([i \in 1 .. self.total_periods |-> self.periodic_coupon],
      LAMBDA cash_flows : [cash_flows EXCEPT ![1] = RatAdd(@, self.face_value)])

\* Bond._cash_flows
_cash_flows(self) ==
  Let([i \in 1 .. self.total_periods |-> self.periodic_coupon],
      LAMBDA cash_flows :
        [cash_flows EXCEPT ![Len(cash_flows)] = RatAdd(@, self.face_value)])

\* the loop of price(): t runs over enumerate(cash_flows, start=1)
RECURSIVE price_loop(_, _, _, _)
price_loop(self, cash_flows, t, acc) ==
  IF t > Len(cash_flows) THEN Ok(acc)
  ELSE Let(present_value(cash_flows[t], self.periodic_yield, t),
           LAMBDA pv : IF Raised(pv) THEN pv
                       ELSE price_loop(self, cash_flows, t + 1, RatAdd(acc, pv.v)))

\* discounting every flow at the annual yield
price_annual_yield(self) ==
  price_loop([self EXCEPT !.periodic_yield = self.yield_to_maturity],
             _cash_flows(self), 1, RatZero)

price(self) == price_loop(self, _cash_flows(self), 1, RatZero)

\* the loop of macaulay_duration(): weighted_sum += t * pv_cf
RECURSIVE weighted_loop(_, _, _, _)
weighted_loop(self, cash_flows, t, acc) ==
  IF t > Len(cash_flows) THEN Ok(acc)
  ELSE Let(present_value(cash_flows[t], self.periodic_yield, t),
           LAMBDA pv_cf :
             IF Raised(pv_cf) THEN pv_cf
             ELSE weighted_loop(self, cash_flows, t + 1,
                                RatAdd(acc, RatMul(RatInt(t), pv_cf.v))))

macaulay_duration(self) ==
  Let(price(self), LAMBDA bond_price :
    IF Raised(bond_price) THEN bond_price
    ELSE Let(weighted_loop(self, _cash_flows(self), 1, RatZero),
             LAMBDA weighted_sum :
      IF Raised(weighted_sum) THEN weighted_sum
      ELSE Let(float_div(weighted_sum.v, bond_price.v),
               LAMBDA duration_in_periods :
        IF Raised(duration_in_periods) THEN duration_in_periods
        ELSE float_div(duration_in_periods.v, RatInt(self.payments_per_year)))))

\* multiplying by (1 + y/m) instead of dividing
modified_duration_times(self) ==
  Let(macaulay_duration(self), LAMBDA mac_dur :
    IF Raised(mac_dur) THEN mac_dur
    ELSE Ok(RatMul(mac_dur.v, RatAdd(RatOne, self.periodic_yield))))

modified_duration(self) ==
  Let(macaulay_duration(self), LAMBDA mac_dur :
    IF Raised(mac_dur) THEN mac_dur
    ELSE float_div(mac_dur.v, RatAdd(RatOne, self.periodic_yield)))

\* the loop of convexity(): convexity_sum += cf * t * (t + 1) / discount
RECURSIVE convexity_loop(_, _, _, _)
convexity_loop(self, cash_flows, t, acc) ==
  IF t > Len(cash_flows) THEN Ok(acc)
  ELSE Let(power(RatAdd(RatOne, self.periodic_yield), t + 2), LAMBDA discount :
       Let(float_div(RatMul(RatMul(cash_flows[t], RatInt(t)), RatInt(t + 1)),
                     discount),
           LAMBDA term :
             IF Raised(term) THEN term
             ELSE convexity_loop(self, cash_flows, t + 1, RatAdd(acc, term.v))))

convexity(self) ==
  Let(price(self), LAMBDA bond_price :
    IF Raised(bond_price) THEN bond_price
    ELSE Let(convexity_loop(self, _cash_flows(self), 1, RatZero),
             LAMBDA convexity_sum :
      IF Raised(convexity_sum) THEN convexity_sum
      ELSE Let(float_div(convexity_sum.v, bond_price.v), LAMBDA per_price :
        IF Raised(per_price) THEN per_price
        ELSE float_div(per_price.v, RatPow(RatInt(self.payments_per_year), 2)))))

\* the duration term alone, without the convexity correction
price_percentage_change_duration_only(self, delta_yield) ==
  Let(modified_duration(self), LAMBDA d_mod :
    IF Raised(d_mod) THEN d_mod
    ELSE Ok(RatMul(RatNeg(d_mod.v), delta_yield)))

\* the convexity term not scaled by delta_yield ** 2
price_percentage_change_unscaled(self, delta_yield) ==
  Let(modified_duration(self), LAMBDA d_mod :
    IF Raised(d_mod) THEN d_mod
    ELSE Let(convexity(self), LAMBDA conv :
      IF Raised(conv) THEN conv
      ELSE Ok(RatAdd(RatMul(RatNeg(d_mod.v), delta_yield),
                     RatMul(R(1, 2), conv.v)))))

price_percentage_change(self, delta_yield) ==
  Let(modified_duration(self), LAMBDA d_mod :
    IF Raised(d_mod) THEN d_mod
    ELSE Let(convexity(self), LAMBDA conv :
      IF Raised(conv) THEN conv
      ELSE Ok(RatAdd(RatMul(RatNeg(d_mod.v), delta_yield),
                     RatMul(RatMul(R(1, 2), conv.v), RatPow(delta_yield, 2))))))

(***************************************************************************)
(* State.                                                                  *)
(*   ctor       the arguments the Bond was constructed with                *)
(*   bond       the instance's fields                                      *)
(*   op, args   the last method called on the instance, and its arguments  *)
(*   result     what that call returned or raised: [err, v], v a number    *)
(*              or, for _cash_flows(), the list                            *)
(*   calls      how many methods have been called on the instance          *)
(*   account    the BankAccount instance's fields                          *)
(*   bank_call  the last BankAccount method called, its amount, and the    *)
(*              balance before it                                          *)
(***************************************************************************)
VARIABLES ctor, bond, op, args, result, calls, account, bank_call

vars == <<ctor, bond, op, args, result, calls, account, bank_call>>

bond_vars == <<ctor, bond, op, args, result, calls>>

bank_vars == <<account, bank_call>>

(***************************************************************************)
(* Inputs.  Face values are positive, coupon rates non-negative, and       *)
(* maturities and payment frequencies positive integers; the yield is any  *)
(* rate, the degenerate ones (1 + periodic yield zero or negative)         *)
(* included, since __init__ validates nothing.                             *)
(***************************************************************************)
MaxYears == 2

MaxPpy == 2

\* the longest sequence of calls explored on one instance
MaxCalls == 2

FaceValues == {1, 2}

CouponRates == {<<0, 1>>, <<1, 1>>}

YieldRates == {<<-3, 1>>, <<-2, 1>>, <<-1, 1>>, <<0, 1>>, <<1, 2>>, <<1, 1>>}

DeltaYields == {RatZero, R(1, 100), R(-1, 2)}

CalcNumbers == {RatZero, R(3, 2), R(-5, 1), R(1, 3)}

BondArgs(f, c, y, n, m) ==
  [face_value |-> f, coupon_rate |-> c, yield_to_maturity |-> y,
   maturity_years |-> n, payments_per_year |-> m]

\* the bond of the __main__ example
ExampleArgs == BondArgs(RatInt(1000), R(6, 100), R(8, 100), 5, 1)

GridArgs ==
  {BondArgs(RatInt(f), R(c[1], c[2]), R(y[1], y[2]), n, m) :
     f \in FaceValues, c \in CouponRates, y \in YieldRates,
     n \in 1 .. MaxYears, m \in 1 .. MaxPpy}

NewBond(a) ==
  Bond(a.face_value, a.coupon_rate, a.yield_to_maturity,
       a.maturity_years, a.payments_per_year)

Queries ==
  {"price", "macaulay_duration", "modified_duration", "convexity",
   "price_percentage_change"}

\* the outcome of query q with arguments xs on instance self
Query(self, q, xs) ==
  CASE q = "price" -> price(self)
    [] q = "macaulay_duration" -> macaulay_duration(self)
    [] q = "modified_duration" -> modified_duration(self)
    [] q = "convexity" -> convexity(self)
    [] q = "price_percentage_change" -> price_percentage_change(self, xs[1])

(***************************************************************************)
(* class BankAccount                                                       *)
(***************************************************************************)
MaxBalance == 6

MaxAmount == 4

Holders == {"Alice", "Bob"}

\* BankAccount.__init__
BankAccount(account_holder, initial_balance) ==
  [account_holder |-> account_holder, balance |-> initial_balance]

\* SavingsAccount.__init__: the BankAccount fields and the interest rate;
\* deposit, withdraw and check_balance are inherited unchanged
SavingsAccount(account_holder, initial_balance, interest_rate) ==
  [account_holder |-> account_holder, balance |-> initial_balance,
   interest_rate |-> interest_rate]

NoBankCall == [op |-> "__init__", amount |-> 0, before |-> 0]

InitBond ==
  /\ ctor \in GridArgs \cup {ExampleArgs}
  /\ bond = NewBond(ctor)
  /\ op = "__init__"
  /\ args = <<>>
  /\ result = Ok(RatZero)
  /\ calls = 0

InitBank ==
  /\ account \in {BankAccount(h, b) : h \in Holders, b \in 0 .. MaxBalance}
                 \cup {SavingsAccount("Bob", b, R(5, 100)) : b \in 0 .. MaxBalance}
  /\ bank_call = NoBankCall

\* a Bond is constructed; the module-level account of Easy_finance.py is not
Init ==
  /\ InitBond
  /\ account = BankAccount("Alice", 0)
  /\ bank_call = NoBankCall

\* an account is constructed; the Bond is the __main__ example
InitAccounts ==
  /\ InitBank
  /\ ctor = ExampleArgs
  /\ bond = NewBond(ctor)
  /\ op = "__init__"
  /\ args = <<>>
  /\ result = Ok(RatZero)
  /\ calls = 0

(***************************************************************************)
(* Calls on the Bond instance.  No method assigns a field of self.         *)
(***************************************************************************)
Called(name, xs) ==
  /\ calls < MaxCalls
  /\ calls' = calls + 1
  /\ op' = name
  /\ args' = xs

Call_cash_flows ==
  /\ Called("_cash_flows", <<>>)
  /\ result' = Ok(_cash_flows(bond))
  /\ UNCHANGED <<ctor, bond, bank_vars>>

\* the principal added into the stored coupon: a schedule kept on the instance
CallPrice_keeps_schedule ==
  /\ Called("price", <<>>)
  /\ result' = price(bond)
  /\ bond' = [bond EXCEPT !.periodic_coupon = RatAdd(@, bond.face_value)]
  /\ UNCHANGED <<ctor, bank_vars>>

CallPrice ==
  /\ Called("price", <<>>)
  /\ result' = price(bond)
  /\ UNCHANGED <<ctor, bond, bank_vars>>

CallMacaulayDuration ==
  /\ Called("macaulay_duration", <<>>)
  /\ result' = macaulay_duration(bond)
  /\ UNCHANGED <<ctor, bond, bank_vars>>

CallModifiedDuration ==
  /\ Called("modified_duration", <<>>)
  /\ result' = modified_duration(bond)
  /\ UNCHANGED <<ctor, bond, bank_vars>>

CallConvexity ==
  /\ Called("convexity", <<>>)
  /\ result' = convexity(bond)
  /\ UNCHANGED <<ctor, bond, bank_vars>>

CallPricePercentageChange(delta_yield) ==
  /\ Called("price_percentage_change", <<delta_yield>>)
  /\ result' = price_percentage_change(bond, delta_yield)
  /\ UNCHANGED <<ctor, bond, bank_vars>>

\* Calculator.divide, inherited by Bond
CallDivide(a, b) ==
  /\ Called("divide", <<a, b>>)
  /\ result' = divide(a, b)
  /\ UNCHANGED <<ctor, bond, bank_vars>>

Next ==
  \/ Call_cash_flows
  \/ CallPrice
  \/ CallMacaulayDuration
  \/ CallModifiedDuration
  \/ CallConvexity
  \/ \E delta_yield \in DeltaYields : CallPricePercentageChange(delta_yield)

Spec == Init /\ [][Next]_vars

\* the Calculator methods of the instance, called with any numbers
NextCalc == \E a \in CalcNumbers, b \in CalcNumbers : CallDivide(a, b)

SpecCalc == Init /\ [][NextCalc]_vars

(***************************************************************************)
(* Calls on the BankAccount or SavingsAccount instance: deposits and       *)
(* withdrawals of non-negative amounts, and balance checks.  Deposits stop *)
(* at MaxBalance to keep the model finite.                                 *)
(***************************************************************************)
Deposit(amount) ==
  /\ account.balance + amount <= MaxBalance
  /\ account' = [account EXCEPT !.balance = @ + amount]
  /\ bank_call' = [op |-> "deposit", amount |-> amount, before |-> account.balance]
  /\ UNCHANGED bond_vars

\* the balance check left out
Withdraw_unchecked(amount) ==
  /\ account' = [account EXCEPT !.balance = @ - amount]
  /\ bank_call' = [op |-> "withdraw", amount |-> amount, before |-> account.balance]
  /\ UNCHANGED bond_vars

Withdraw(amount) ==
  /\ account' = IF amount <= account.balance
                THEN [account EXCEPT !.balance = @ - amount]
                ELSE account
  /\ bank_call' = [op |-> "withdraw", amount |-> amount, before |-> account.balance]
  /\ UNCHANGED bond_vars

CheckBalance ==
  /\ bank_call' = [op |-> "check_balance", amount |-> account.balance,
                   before |-> account.balance]
  /\ UNCHANGED <<account, bond_vars>>

NextBank ==
  \/ \E amount \in 0 .. MaxAmount : Deposit(amount)
  \/ \E amount \in 0 .. MaxAmount : Withdraw(amount)
  \/ CheckBalance

SpecBank == InitAccounts /\ [][NextBank]_vars

(***************************************************************************)
(* Properties.                                                             *)
(***************************************************************************)
Returned(r) == ~Raised(r)

\* two outcomes agree: the same exception, or equal numbers
SameOutcome(r1, r2) ==
  /\ r1.err = r2.err
  /\ Returned(r1) => RatEq(r1.v, r2.v)

\* price() returns exactly zero
PriceIsZero(self) ==
  Let(price(self), LAMBDA p : Returned(p) /\ RatIsZero(p.v))

\* price() returns a value other than zero
PriceIsNonzero(self) ==
  Let(price(self), LAMBDA p : Returned(p) /\ ~RatIsZero(p.v))

\* 1 + periodic_yield = 0: every discount factor is zero
ZeroDiscount(self) == RatIsZero(RatAdd(RatOne, self.periodic_yield))

PositiveFace == ctor.face_value.s > 0

\* C1's case: price() of a zero-coupon bond with a yield above -1
C1_Case ==
  /\ op = "price"
  /\ RatIsZero(ctor.coupon_rate)
  /\ PositiveFace
  /\ RatLt(RatInt(-1), ctor.yield_to_maturity)

\* C1 as stated: the price of a zero-coupon bond equals
\* present_value(face_value, yield_to_maturity, maturity_years).
C1_AnnualDiscounting ==
  C1_Case =>
    SameOutcome(result, present_value(bond.face_value, bond.yield_to_maturity,
                                      bond.maturity_years))

\* C1, amended: the price of a zero-coupon bond equals
\* present_value(face_value, periodic_yield, total_periods), the face value
\* discounted at the periodic yield over all the periods.
C1_PeriodicDiscounting ==
  C1_Case =>
    SameOutcome(result, present_value(bond.face_value, bond.periodic_yield,
                                      bond.total_periods))

C1_Witness ==
  /\ C1_Case
  /\ bond.payments_per_year >= 2
  /\ ~RatIsZero(bond.yield_to_maturity)
  /\ Returned(result)

\* C2: a bond whose coupon rate equals its yield to maturity is priced at
\* its face value.
C2_ParPrice ==
  (op = "price" /\ RatEq(ctor.coupon_rate, ctor.yield_to_maturity) /\ PositiveFace)
    => Returned(result) /\ RatEq(result.v, bond.face_value)

C2_Witness ==
  /\ op = "price"
  /\ RatEq(ctor.coupon_rate, ctor.yield_to_maturity)
  /\ bond.coupon_rate.s > 0
  /\ bond.total_periods >= 2
  /\ Returned(result)

\* what C3's figures share: price, Macaulay and modified duration of the example
C3_Durations ==
  /\ op = "price" => Returned(result) /\ RoundsTo(result.v, 92015, 100)
  /\ op = "macaulay_duration" => Returned(result) /\ RoundsTo(result.v, 444, 100)
  /\ op = "modified_duration" => Returned(result) /\ RoundsTo(result.v, 411, 100)

C3_ChangeCall == op = "price_percentage_change" /\ RatEq(args[1], R(1, 100))

\* C3 as stated: Bond(1000, 0.06, 0.08, 5, 1) has price 920.15, Macaulay
\* duration 4.44, modified duration 4.11 and price_percentage_change(0.01)
\* of -0.0411.
C3_ExampleAsStated ==
  ctor = ExampleArgs =>
    /\ C3_Durations
    /\ C3_ChangeCall => Returned(result) /\ RoundsTo(result.v, -411, 10000)

\* C3, amended: Bond(1000, 0.06, 0.08, 5, 1) has price 920.15, Macaulay
\* duration 4.44, modified duration 4.11 and price_percentage_change(0.01)
\* of -0.0400.
C3_Example ==
  ctor = ExampleArgs =>
    /\ C3_Durations
    /\ C3_ChangeCall => Returned(result) /\ RoundsTo(result.v, -400, 10000)

C3_Witness ==
  /\ ctor = ExampleArgs
  /\ C3_ChangeCall
  /\ Returned(result)
  /\ calls = MaxCalls

\* C4: divide(a, 0) raises ZeroDivisionError and returns nothing; for
\* b # 0, divide(a, b) returns the quotient: the number q with q * b = a.
C4_Divide ==
  op = "divide" =>
    IF RatIsZero(args[2])
    THEN result = Raise("ZeroDivisionError")
    ELSE Returned(result) /\ RatEq(RatMul(result.v, args[2]), args[1])

C4_Witness ==
  /\ op = "divide"
  /\ RatIsZero(args[2])
  /\ ~RatIsZero(args[1])
  /\ Raised(result)

C6_ModifiedAtMostMacaulay ==
  (op = "modified_duration" /\ ctor.yield_to_maturity.s >= 0 /\ PositiveFace
     /\ ctor.coupon_rate.s >= 0)
    => Let(macaulay_duration(bond), LAMBDA mac :
         Returned(result) /\ Returned(mac) /\ RatLe(result.v, mac.v))

C6_Witness ==
  /\ op = "modified_duration"
  /\ ctor.yield_to_maturity.s > 0
  /\ Returned(result)
  /\ RatLt(result.v, macaulay_duration(bond).v)

\* C7: whatever calls were made, the fields are those the constructor set,
\* and a query's outcome is its outcome on a freshly constructed Bond.
C7_QueriesArePure ==
  /\ bond = NewBond(ctor)
  /\ op \in Queries => result = Query(NewBond(ctor), op, args)

C7_Witness ==
  /\ calls = MaxCalls
  /\ op = "convexity"
  /\ Returned(result)
  /\ bond = NewBond(ctor)

C8_Case == op = "price_percentage_change" /\ RatIsZero(args[1])

C9_Schedule ==
  op = "_cash_flows" =>
    /\ Returned(result)
    /\ bond.total_periods = bond.maturity_years * bond.payments_per_year
    /\ Len(result.v) = bond.total_periods
    /\ \A i \in 1 .. Len(result.v) - 1 : RatEq(result.v[i], bond.periodic_coupon)
    /\ RatEq(RatSub(result.v[Len(result.v)], bond.face_value), bond.periodic_coupon)

C9_Witness ==
  /\ op = "_cash_flows"
  /\ Len(result.v) >= 3
  /\ ~RatIsZero(bond.periodic_coupon)

\* C10: the balance never goes negative: a withdrawal of more than the
\* balance leaves it unchanged, any other decreases it by the amount.
C10_BalanceNonNegative ==
  /\ account.balance >= 0
  /\ bank_call.op = "withdraw" =>
       account.balance = IF bank_call.amount > bank_call.before
                         THEN bank_call.before
                         ELSE bank_call.before - bank_call.amount

C10_Witness ==
  /\ bank_call.op = "withdraw"
  /\ bank_call.amount > bank_call.before
  /\ bank_call.before > 0
  /\ account.balance = bank_call.before

====
